---- MODULE Spec2Model ----
(***************************************************************************)
(* unyaffs: extraction / listing of a yaffs2 image (src/unyaffs.c).        *)
(*                                                                         *)
(* 32-bit words (unsigned tag fields, int header fields, int remain) are   *)
(* kept as the integer in -2^31 .. 2^31-1 that has the same bit pattern:   *)
(* 0xffffffff is -1, unsigned comparison is ULt, unsigned subtraction      *)
(* followed by the conversion to int is Sub32.                             *)
(*                                                                         *)
(* A record of the image is [t |-> tag words, oh |-> header fields].  The  *)
(* bytes a write takes from the record buffer data[] are kept as an extent *)
(* <<chunk_no, n>>: the first n bytes of data[] as filled by read number   *)
(* chunk_no; bytes 0 .. chunk_size-1 are the payload, the next spare_size  *)
(* bytes are the spare area, anything beyond is outside the record.        *)
(***************************************************************************)
EXTENDS Integers, Sequences, FiniteSets, TLC

VARIABLES run, run2, rd

vars == <<run, run2, rd>>

(* ------------------------- program constants ------------------------- *)

MAX_CHUNK_SIZE == 16384
MAX_SPARE_SIZE == 512
HASH_SIZE == 7001
MAX_WARN == 20
YAFFS_OBJECTID_ROOT == 1

YAFFS_OBJECT_TYPE_UNKNOWN == 0
YAFFS_OBJECT_TYPE_FILE == 1
YAFFS_OBJECT_TYPE_SYMLINK == 2
YAFFS_OBJECT_TYPE_DIRECTORY == 3
YAFFS_OBJECT_TYPE_HARDLINK == 4
YAFFS_OBJECT_TYPE_SPECIAL == 5

\* tag byteCount of an object header (0xffff) and of an erased chunk (0xffffffff)
BC_HEADER == 65535
BC_EMPTY == -1

\* S_ISUID|S_ISGID|S_ISVTX
EXTRA_PERMS == 3584
\* S_IRWXU|S_IRWXG|S_IRWXO
STD_PERMS == 511

possible_layouts ==
    << [chunk_size |-> 2048,  spare_size |-> 64],
       [chunk_size |-> 4096,  spare_size |-> 128],
       [chunk_size |-> 8192,  spare_size |-> 256],
       [chunk_size |-> 16384, spare_size |-> 512] >>

max_layout == Len(possible_layouts)

\* sizeof(data), sizeof(buffer)
DataSize == MAX_CHUNK_SIZE + MAX_SPARE_SIZE
BufferSize == 2 * (MAX_CHUNK_SIZE + MAX_SPARE_SIZE)

\* the build has lutimes (linux): symlink times are restored
HAS_LUTIMES == TRUE

(* --------------------------- 32-bit words ---------------------------- *)

Half == 65536

\* a < b as unsigned 32-bit values
ULt(a, b) == IF (a >= 0) = (b >= 0) THEN a < b ELSE a >= 0

\* (int)((unsigned)a - (unsigned)b): subtraction modulo 2^32
Sub32(a, b) ==
    LET lo == (a % Half) - (b % Half)
        borrow == IF lo < 0 THEN 1 ELSE 0
        h == (a \div Half) - (b \div Half) - borrow
        hi == ((h + 32768) % Half) - 32768
    IN  (hi * Half) + (lo % Half)

\* (unsigned)id % HASH_SIZE
UHash(id) ==
    IF id >= 0 THEN id % HASH_SIZE
    ELSE ((id % HASH_SIZE) + ((Half % HASH_SIZE) * (Half % HASH_SIZE))) % HASH_SIZE

\* mode & mask, for the two masks the program uses (both are runs of low bits
\* or a run of bits above them)
ModeExtra(mode) == (mode \div 512) % 8
ModeStd(mode) == mode % 512

(* --------------------------- object table ---------------------------- *)

\* obj_list: every hash chain, newest entry first, merged into one list in
\* insertion order (newest first); a chain is the sub-list of one bucket.
Chain(obj_list, idx) == SelectSeq(obj_list, LAMBDA e : UHash(e.id) = idx)

\* get_object: <<>> is NULL, <<e>> the entry found
get_object(obj_list, id) ==
    LET hit == SelectSeq(Chain(obj_list, UHash(id)), LAMBDA e : e.id = id)
    IN  IF hit = <<>> THEN <<>> ELSE <<Head(hit)>>

\* init_obj_list: the table holds the root only
root_object ==
    [id |-> YAFFS_OBJECTID_ROOT, type |-> YAFFS_OBJECT_TYPE_DIRECTORY,
     prev_dir_id |-> 0, atime |-> 0, mtime |-> 0, path_name |-> <<".">>]

\* a variant of the name checks that lets "." and ".." through (C9 must not
\* hold of it)
IllegalNameNoDots(name) ==
    \/ name = <<>>
    \/ \E i \in 1..Len(name) : name[i] = "/"

\* the name checks of add_object (strchr '/', strcmp ".", strcmp "..")
IllegalName(name) ==
    \/ name = <<>>
    \/ \E i \in 1..Len(name) : name[i] = "/"
    \/ name = <<".">>
    \/ name = <<".", ".">>

\* a variant of the type check that takes one ordinal too many (C10 must not
\* hold of it)
DefinedTypeOffByOne(type) == type >= 0 /\ type <= 6

\* lines 244-249: the six ordinals of yaffs_ObjectType
DefinedType(type) ==
    type \in { YAFFS_OBJECT_TYPE_FILE, YAFFS_OBJECT_TYPE_DIRECTORY,
               YAFFS_OBJECT_TYPE_SYMLINK, YAFFS_OBJECT_TYPE_HARDLINK,
               YAFFS_OBJECT_TYPE_SPECIAL, YAFFS_OBJECT_TYPE_UNKNOWN }

\* a variant that joins with "/" under the root too (C16 must not hold of it)
JoinPathAlways(parent_path, name) == parent_path \o <<"/">> \o name

\* path of a new entry under parent
JoinPath(parent_path, name) ==
    IF parent_path = <<".">> THEN name ELSE parent_path \o <<"/">> \o name

\* prt_err(1, ...): the run ends with exit status 1
Fatal(st, m) == [st EXCEPT !.pc = "abort", !.msg = m]

\* a variant that overwrites the times of every entry (C17 must not hold of it)
SetTimesAll(obj_list, id, oh) ==
    [i \in 1..Len(obj_list) |->
        [obj_list[i] EXCEPT !.atime = oh.yst_atime, !.mtime = oh.yst_mtime]]

\* the times of the entry with this id are overwritten (lines 289-290)
SetTimes(obj_list, id, oh) ==
    [i \in 1..Len(obj_list) |->
        IF obj_list[i].id = id
        THEN [obj_list[i] EXCEPT !.atime = oh.yst_atime, !.mtime = oh.yst_mtime]
        ELSE obj_list[i]]

\* a variant that links every new entry into the directory stack's chain
\* (C18 must not hold of it)
PrevDirAlways(type, last_dir_id) == last_dir_id

\* lines 272-276: prev_dir_id of a new entry
PrevDir(type, last_dir_id) ==
    IF type = YAFFS_OBJECT_TYPE_DIRECTORY THEN last_dir_id ELSE 0

\* add_object on state st: the state after it; on success st.obj is the entry
add_object(st, oh, pt) ==
    LET found == get_object(st.obj_list, pt.objectId)
        parent == get_object(st.obj_list, oh.parentObjectId)
    IN
    IF pt.objectId = YAFFS_OBJECTID_ROOT THEN
        IF found = <<>> THEN Fatal(st, "Missing root object")
        ELSE IF oh.type # YAFFS_OBJECT_TYPE_DIRECTORY
        THEN Fatal(st, "Root object must be directory")
        ELSE [st EXCEPT
                !.last_dir_id = IF st.last_dir_id = 0 THEN YAFFS_OBJECTID_ROOT
                                ELSE st.last_dir_id,
                !.obj_list = SetTimes(st.obj_list, pt.objectId, oh),
                !.obj = <<[found[1] EXCEPT !.atime = oh.yst_atime,
                                           !.mtime = oh.yst_mtime]>>]
    ELSE
        IF ~DefinedType(oh.type) THEN Fatal(st, "Illegal type")
        ELSE IF IllegalName(oh.name) THEN Fatal(st, "Illegal file name")
        ELSE IF found # <<>> THEN Fatal(st, "Duplicate objectId")
        ELSE IF parent = <<>> THEN Fatal(st, "Invalid parentObjectId")
        ELSE IF parent[1].type # YAFFS_OBJECT_TYPE_DIRECTORY
        THEN Fatal(st, "File can't be created")
        ELSE
            LET e == [id |-> pt.objectId, type |-> oh.type,
                      prev_dir_id |-> PrevDir(oh.type, st.last_dir_id),
                      atime |-> oh.yst_atime, mtime |-> oh.yst_mtime,
                      path_name |-> JoinPath(parent[1].path_name, oh.name)]
            IN  [st EXCEPT
                    !.last_dir_id = IF oh.type = YAFFS_OBJECT_TYPE_DIRECTORY
                                    THEN pt.objectId ELSE st.last_dir_id,
                    !.obj_list = <<e>> \o st.obj_list,
                    !.obj = <<e>>]

(* ------------------------- filesystem effects ------------------------ *)

\* one operation issued to the filesystem is appended to the log st.ops
Op(st, op) == [st EXCEPT !.ops = Append(@, op)]

\* set_utime(filename, atime, mtime)
set_utime(st, path, atime, mtime) == Op(st, <<"set_utime", path, atime, mtime>>)

\* set_dirs_utime: the chain from last_dir_id through prev_dir_id
RECURSIVE dirs_utime(_, _)
dirs_utime(st, id) ==
    IF id = 0 THEN st
    ELSE LET obj == get_object(st.obj_list, id)
         IN  IF obj = <<>> THEN st
             ELSE dirs_utime(set_utime(st, obj[1].path_name, obj[1].atime, obj[1].mtime),
                             obj[1].prev_dir_id)

set_dirs_utime(st) == dirs_utime(st, st.last_dir_id)

\* what the run itself has put at path so far: "none", "dir" or "node"
\* (every creating operation in the log succeeded, but a mknod logged with
\* its error)
PathKind(st, path) ==
    LET made == { i \in 1..Len(st.ops) :
                    /\ st.ops[i][2] = path
                    /\ \/ st.ops[i][1] \in {"creat", "mkdir", "symlink", "link"}
                       \/ st.ops[i][1] = "mknod" /\ st.ops[i][3] = "ok" }
    IN  IF made = {} THEN "none"
        ELSE IF \E i \in made : st.ops[i][1] = "mkdir" THEN "dir" ELSE "node"

\* the outcome of a creating operation: fs is what the environment answers
\* where the operation can succeed; it cannot on a path the run has already
\* filled (creat of a directory, anything else on any path) nor, for link,
\* without a target that is on disk and no directory
Outcome(st, op, path, target, fs) ==
    IF op = "creat" THEN (IF PathKind(st, path) = "dir" THEN "EISDIR" ELSE fs)
    ELSE IF PathKind(st, path) # "none" THEN "EEXIST"
    ELSE IF op = "link" /\ target # <<".">> /\ PathKind(st, target) = "none" THEN "ENOENT"
    ELSE IF op = "link" /\ (target = <<".">> \/ PathKind(st, target) = "dir") THEN "EPERM"
    ELSE fs

(* --------------------------- process_chunk --------------------------- *)

\* lines 408-412: one line of listing per header
Listing(st, oh) ==
    IF st.opt_verbose
    THEN [st EXCEPT !.out = Append(@, <<"long", st.obj[1].path_name>>)]
    ELSE IF st.opt_list
    THEN [st EXCEPT !.out = Append(@, <<"name", st.obj[1].path_name>>)]
    ELSE st

\* lines 481-494: the times of the object just created
SetObjectTime(st, path, oh) ==
    IF \/ oh.type = YAFFS_OBJECT_TYPE_FILE
       \/ oh.type = YAFFS_OBJECT_TYPE_SPECIAL
       \/ (HAS_LUTIMES /\ oh.type = YAFFS_OBJECT_TYPE_SYMLINK)
    THEN set_utime(st, path, oh.yst_atime, oh.yst_mtime)
    ELSE st

\* the local variables of process_chunk are dead once it returns
Return(st) == [st EXCEPT !.obj = <<>>, !.cur = <<>>, !.remain = 0, !.pc = "main"]

\* lines 439-444 and 481-490: the data loop of a FILE has ended
FinishFile(st) ==
    LET path == st.cur[1].path
        oh == st.cur[1].oh
        s1 == Op(st, <<"close", path>>)
        s2 == Op(s1, <<"lchown", path>>)
        s3 == IF ModeExtra(oh.yst_mode) # 0 THEN Op(s2, <<"chmod", path, oh.yst_mode>>)
              ELSE s2
    IN  Return(SetObjectTime(s3, path, oh))

\* lines 413-423: list mode, after the listing line
ListObject(st, oh) ==
    IF oh.type = YAFFS_OBJECT_TYPE_FILE /\ oh.fileSize > 0
    THEN [st EXCEPT !.remain = oh.fileSize, !.pc = "file",
                    !.cur = <<[id |-> st.obj[1].id, path |-> st.obj[1].path_name,
                               oh |-> oh, recs |-> <<>>]>>,
                    !.obj = <<>>]
    ELSE Return(st)

\* a variant that looks the link target up by the parent id (C6 must not hold
\* of it)
LinkTargetByParent(obj_list, oh) == get_object(obj_list, oh.parentObjectId)

\* line 461: the entry a HARDLINK names
LinkTarget(obj_list, oh) == get_object(obj_list, oh.equivalentObjectId)

\* lines 425-479: extract mode, the operations of one header up to the data
\* loop; fs is the outcome of the one operation whose failure the code tests
ExtractObject(st, oh, pt, fs) ==
    LET path == st.obj[1].path_name IN
    CASE oh.type = YAFFS_OBJECT_TYPE_FILE ->
            LET r == Outcome(st, "creat", path, <<>>, fs)
                s1 == Op(st, <<"creat", path, ModeStd(oh.yst_mode)>>)
            IN
            IF r # "ok" THEN Fatal(s1, "Can't create file")
            ELSE LET s2 == [s1 EXCEPT !.remain = oh.fileSize,
                                      !.cur = <<[id |-> st.obj[1].id, path |-> path,
                                                oh |-> oh, recs |-> <<>>]>>,
                                      !.obj = <<>>]
                 IN  IF oh.fileSize > 0 THEN [s2 EXCEPT !.pc = "file"]
                     ELSE FinishFile(s2)
      [] oh.type = YAFFS_OBJECT_TYPE_SYMLINK ->
            LET r == Outcome(st, "symlink", path, <<>>, fs)
                s1 == Op(st, <<"symlink", path>>)
            IN
            IF r # "ok" THEN Fatal(s1, "Can't create symlink")
            ELSE Return(SetObjectTime(Op(s1, <<"lchown", path>>), path, oh))
      [] oh.type = YAFFS_OBJECT_TYPE_DIRECTORY ->
            LET root == (pt.objectId = YAFFS_OBJECTID_ROOT)
                r == Outcome(st, "mkdir", path, <<>>, fs)
                s1 == IF root THEN st
                      ELSE Op(st, <<"mkdir", path, ModeStd(oh.yst_mode)>>)
            IN
            IF ~root /\ r # "ok" THEN Fatal(s1, "Can't create directory")
            ELSE LET s2 == Op(s1, <<"lchown", path>>)
                     s3 == IF root \/ ModeExtra(oh.yst_mode) # 0
                           THEN Op(s2, <<"chmod", path, oh.yst_mode>>) ELSE s2
                 IN  Return(SetObjectTime(s3, path, oh))
      [] oh.type = YAFFS_OBJECT_TYPE_HARDLINK ->
            LET eq_obj == LinkTarget(st.obj_list, oh) IN
            IF eq_obj = <<>> THEN Fatal(st, "Invalid equivalentObjectId")
            ELSE LET r == Outcome(st, "link", path, eq_obj[1].path_name, fs)
                     s1 == Op(st, <<"link", path, eq_obj[1].path_name>>)
                 IN
                 IF r # "ok" THEN Fatal(s1, "Can't create hardlink")
                 ELSE Return(SetObjectTime(s1, path, oh))
      [] oh.type = YAFFS_OBJECT_TYPE_SPECIAL ->
            LET r == Outcome(st, "mknod", path, <<>>, fs)
                s1 == Op(st, <<"mknod", path, r>>)
            IN
            IF r \notin {"ok", "EPERM"} THEN Fatal(s1, "Can't create device")
            ELSE Return(SetObjectTime(Op(s1, <<"lchown", path>>), path, oh))
      [] OTHER -> Return(SetObjectTime(st, path, oh))

\* the tag classes of lines 396-404
IsEmpty(pt) == pt.byteCount = BC_EMPTY
IsHeader(pt) == pt.byteCount = BC_HEADER

\* a variant that gives up one warning later (C7 must not hold of it)
GivingUpLate(warn_count) == warn_count > MAX_WARN

\* line 401: the warning budget is used up
GivingUp(warn_count) == warn_count >= MAX_WARN

\* process_chunk up to the data loop, on the record rec read by main
process_chunk(st, rec, fs) ==
    IF IsEmpty(rec.t) THEN st
    ELSE IF ~IsHeader(rec.t) THEN
        LET s1 == [st EXCEPT !.warn_count = @ + 1] IN
        IF GivingUp(s1.warn_count) THEN Fatal(s1, "Giving up") ELSE s1
    ELSE
        LET s1 == add_object(st, rec.oh, rec.t) IN
        IF s1.pc = "abort" THEN s1
        ELSE LET s2 == Listing(s1, rec.oh) IN
             IF st.opt_list THEN ListObject(s2, rec.oh)
             ELSE ExtractObject(s2, rec.oh, rec.t, fs)

\* one turn of the data loop of a FILE, on the record rec read by it
\* (lines 416-420 in list mode, 431-438 in extract mode)
ListRemain(remain, byteCount) == Sub32(remain, byteCount)

WriteSize(remain, byteCount) == IF ULt(remain, byteCount) THEN remain ELSE byteCount

\* cur.recs is history: the records the data loop of the file being written
\* has consumed, as <<chunk_no, byteCount>> (kept in extract mode only)
file_chunk(st0, rec, fs) ==
    LET st == IF st0.opt_list THEN st0
              ELSE [st0 EXCEPT !.cur[1].recs = Append(@, <<st0.chunk_no, rec.t.byteCount>>)]
    IN
    IF st.opt_list THEN
        LET s1 == [st EXCEPT !.remain = ListRemain(st.remain, rec.t.byteCount)] IN
        IF s1.remain > 0 THEN s1 ELSE Return(s1)
    ELSE
        LET s == WriteSize(st.remain, rec.t.byteCount)
            s1 == IF s # 0
                  THEN Op(st, <<"write", st.cur[1].path, st.chunk_no, s>>) ELSE st
        IN
        IF s # 0 /\ fs # "ok" THEN Fatal(s1, "Can't write")
        ELSE LET s2 == [s1 EXCEPT !.remain = st.remain - s] IN
             IF s2.remain > 0 THEN s2 ELSE FinishFile(s2)

\* a variant of read_chunk that does not advance (C20 must not hold of it)
read_chunkIdle(st) == st

\* read_chunk as process_chunk and main see it: the counter, and one of
\* present (a whole record), absent (no byte) or the abort on a partial record
read_chunk(st) == [st EXCEPT !.chunk_no = @ + 1]

\* the state after the next record rec, read where the run stands
AfterRecord(st, rec, fs) ==
    IF st.pc = "main" THEN process_chunk(read_chunk(st), rec, fs)
    ELSE IF st.pc = "file" THEN file_chunk(read_chunk(st), rec, fs)
    ELSE st

(* ------------------------------- main -------------------------------- *)

\* the globals as the program is loaded (lines 69-81, 95) and the options
LoadedRun(list, verbose, layout) ==
    [pc |-> "start", msg |-> "", opt_list |-> list, opt_verbose |-> verbose,
     layout |-> layout, chunk_size |-> 2048, spare_size |-> 64,
     chunk_no |-> 0, warn_count |-> 0, last_dir_id |-> 0, obj_list |-> <<>>,
     obj |-> <<>>, cur |-> <<>>, remain |-> 0, ops |-> <<>>, out |-> <<>>]

\* init_obj_list
init_obj_list(st) == [st EXCEPT !.last_dir_id = 0, !.obj_list = <<root_object>>]

\* main, lines 632-649, with a forced layout: base says whether a base
\* directory was given, fs is the outcome of mkdirpath and chdir
main_start(st, base, fs) ==
    LET s1 == [st EXCEPT !.chunk_size = possible_layouts[st.layout].chunk_size,
                         !.spare_size = possible_layouts[st.layout].spare_size]
        s2 == IF base /\ ~st.opt_list THEN Op(s1, <<"mkdirpath", <<"base">>>>) ELSE s1
    IN  IF base /\ ~st.opt_list /\ fs # "ok" THEN Fatal(s2, "Can't mkdir")
        ELSE [init_obj_list(s2) EXCEPT !.pc = "main"]

\* main, lines 650-655: read_chunk returned 0 to the loop of main
main_end(st) == [set_dirs_utime(st) EXCEPT !.pc = "done"]

\* lines 417-418 and 432-433: read_chunk returned 0 to the data loop
file_end(st) == Fatal(st, "Broken image file")

\* read_chunk, lines 520-521: a partial record
partial_chunk(st) == Fatal(st, "Broken image file")

(* ------------------------- the images explored ----------------------- *)

MaxChunks == 3
MaxChunksWarn == 22

Header(id, chunkId, type, parent, name, mode, tm, size, eq) ==
    [t |-> [objectId |-> id, chunkId |-> chunkId, byteCount |-> BC_HEADER],
     oh |-> [type |-> type, parentObjectId |-> parent, name |-> name,
             yst_mode |-> mode, yst_atime |-> tm[1], yst_mtime |-> tm[2],
             fileSize |-> size, equivalentObjectId |-> eq]]

\* the fields that matter to each type vary, the others are fixed
Details(type) ==
    CASE type = YAFFS_OBJECT_TYPE_FILE ->
            {[mode |-> 420, tm |-> <<1, 2>>, size |-> sz, eq |-> 0] :
                 sz \in {-1, 0, 2, 2049}}
      [] type = YAFFS_OBJECT_TYPE_DIRECTORY ->
            {[mode |-> m, tm |-> tm, size |-> 0, eq |-> 0] :
                 m \in {493, 1517}, tm \in {<<1, 2>>, <<3, 4>>}}
      [] type = YAFFS_OBJECT_TYPE_HARDLINK ->
            {[mode |-> 420, tm |-> <<1, 2>>, size |-> 0, eq |-> e] : e \in {2, 9}}
      [] OTHER -> {[mode |-> 420, tm |-> <<1, 2>>, size |-> 0, eq |-> 0]}

\* one header per id, parent and detail of each type, under two names
NamedHeaderRecords ==
    UNION { UNION { { Header(id, 0, type, parent, name, d.mode, d.tm, d.size, d.eq) :
                        id \in {1, 2, 3}, parent \in {1, 2, 9},
                        name \in {<<"a">>, <<"b">>} } :
                    d \in Details(type) } : type \in 0..6 }

BadNameRecords ==
    { Header(id, 0, type, parent, name, 420, <<1, 2>>, 0, 0) :
        id \in {1, 2}, type \in {1, 3, 6}, parent \in {1, 9},
        name \in { <<>>, <<".">>, <<".", ".">>, <<"a", "/">> } }

\* what the payload of a record that is no header reads as
JunkHeader ==
    [type |-> 0, parentObjectId |-> 0, name |-> <<>>, yst_mode |-> 0,
     yst_atime |-> 0, yst_mtime |-> 0, fileSize |-> 0, equivalentObjectId |-> 0]

DataRecords ==
    { [t |-> [objectId |-> id, chunkId |-> 1, byteCount |-> bc], oh |-> JunkHeader] :
        id \in {2, 3}, bc \in {0, 1, 2049} }

ErasedRecord ==
    [t |-> [objectId |-> -1, chunkId |-> -1, byteCount |-> BC_EMPTY], oh |-> JunkHeader]

\* records with the byteCount of a header and a chunkId that is not 0
ChunkIdRecords ==
    { Header(2, 1, YAFFS_OBJECT_TYPE_DIRECTORY, 1, <<"a">>, 493, <<1, 2>>, 0, 0),
      Header(3, 1, YAFFS_OBJECT_TYPE_FILE, 1, <<"b">>, 420, <<1, 2>>, 2, 0) }

Records ==
    NamedHeaderRecords \cup BadNameRecords \cup ChunkIdRecords
        \cup DataRecords \cup {ErasedRecord}

\* the forced layouts (-l) of the runs explored
LayoutArgs == {1}

FsResults == {"ok", "EPERM", "EIO"}

Idle == [pc |-> "off"]

(* ----------------------------- one run ------------------------------- *)

Init ==
    /\ run \in { LoadedRun(l, v, layout) :
                    l \in BOOLEAN, v \in BOOLEAN, layout \in LayoutArgs }
    /\ run2 = Idle
    /\ rd = Idle

Start ==
    /\ run.pc = "start"
    /\ \E base \in BOOLEAN, fs \in FsResults : run' = main_start(run, base, fs)
    /\ UNCHANGED <<run2, rd>>

\* main reads a record (one of Recs, within max records) and processes it
MainRecordOf(Recs, max) ==
    /\ run.pc = "main"
    /\ run.chunk_no < max
    /\ \E rec \in Recs, fs \in FsResults :
           run' = process_chunk(read_chunk(run), rec, fs)
    /\ UNCHANGED <<run2, rd>>

\* the data loop of a FILE reads a record
FileRecordOf(Recs, max) ==
    /\ run.pc = "file"
    /\ run.chunk_no < max
    /\ \E rec \in Recs, fs \in FsResults :
           run' = file_chunk(read_chunk(run), rec, fs)
    /\ UNCHANGED <<run2, rd>>

MainRecord == MainRecordOf(Records, MaxChunks)

FileRecord == FileRecordOf(Records, MaxChunks)

MainEnd ==
    /\ run.pc = "main"
    /\ run' = main_end(read_chunk(run))
    /\ UNCHANGED <<run2, rd>>

FileEnd ==
    /\ run.pc = "file"
    /\ run' = file_end(read_chunk(run))
    /\ UNCHANGED <<run2, rd>>

PartialRecord ==
    /\ run.pc \in {"main", "file"}
    /\ run' = partial_chunk(read_chunk(run))
    /\ UNCHANGED <<run2, rd>>

Next == Start \/ MainRecord \/ FileRecord \/ MainEnd \/ FileEnd \/ PartialRecord

Spec == Init /\ [][Next]_vars

\* the program is sequential: while it can take a step it takes one
SpecLive == Init /\ [][Next]_vars /\ WF_vars(Next)

(* ------------------- one run, long image of few kinds ---------------- *)

\* images of up to MaxChunksWarn records: records that are no header, erased
\* records, the header of one directory and of one FILE
WarnRecords ==
    { r \in DataRecords : r.t.objectId = 2 /\ r.t.byteCount \in {0, 1} }
        \cup {ErasedRecord}
        \cup { Header(3, 0, YAFFS_OBJECT_TYPE_DIRECTORY, 1, <<"b">>, 493, <<1, 2>>, 0, 0),
               Header(2, 0, YAFFS_OBJECT_TYPE_FILE, 1, <<"a">>, 420, <<1, 2>>, 2, 0) }

InitWarn ==
    /\ run \in { LoadedRun(l, FALSE, layout) : l \in BOOLEAN, layout \in LayoutArgs }
    /\ run2 = Idle
    /\ rd = Idle

MainRecordWarn == MainRecordOf(WarnRecords, MaxChunksWarn)

FileRecordWarn == FileRecordOf(WarnRecords, MaxChunksWarn)

NextWarn ==
    Start \/ MainRecordWarn \/ FileRecordWarn \/ MainEnd \/ FileEnd \/ PartialRecord

SpecWarn == InitWarn /\ [][NextWarn]_vars

(* ---------------- two runs on one image: -t and extract -------------- *)

MaxChunksPair == 4

PairRecords ==
    { r \in NamedHeaderRecords :
        /\ r.oh.parentObjectId = 1
        /\ r.oh.type \in {YAFFS_OBJECT_TYPE_FILE, YAFFS_OBJECT_TYPE_DIRECTORY}
        /\ r.oh.yst_mode \in {420, 493}
        /\ r.oh.yst_mtime = 2 }
        \cup DataRecords \cup {ErasedRecord}

\* the state after read_chunk has returned 0 where the run stands
AfterEnd(st) ==
    IF st.pc = "main" THEN main_end(read_chunk(st))
    ELSE IF st.pc = "file" THEN file_end(read_chunk(st))
    ELSE st

AfterPartial(st) ==
    IF st.pc \in {"main", "file"} THEN partial_chunk(read_chunk(st)) ELSE st

Alive(st) == st.pc \in {"main", "file"}

InitModes ==
    /\ \E v \in BOOLEAN, layout \in LayoutArgs :
           /\ run = LoadedRun(TRUE, v, layout)
           /\ run2 = LoadedRun(FALSE, FALSE, layout)
    /\ rd = Idle

StartBoth ==
    /\ run.pc = "start"
    /\ run2.pc = "start"
    /\ \E base \in BOOLEAN, fs \in FsResults :
           /\ run' = main_start(run, base, fs)
           /\ run2' = main_start(run2, base, fs)
    /\ UNCHANGED rd

\* both runs are given the same next record of the image
FeedBoth ==
    /\ Alive(run) \/ Alive(run2)
    /\ Alive(run) => run.chunk_no < MaxChunksPair
    /\ Alive(run2) => run2.chunk_no < MaxChunksPair
    /\ \E rec \in PairRecords, fs \in FsResults :
           /\ run' = AfterRecord(run, rec, fs)
           /\ run2' = AfterRecord(run2, rec, fs)
    /\ UNCHANGED rd

\* the image ends for both
EndBoth ==
    /\ Alive(run) \/ Alive(run2)
    /\ run' = AfterEnd(run)
    /\ run2' = AfterEnd(run2)
    /\ UNCHANGED rd

\* the image ends in a partial record for both
PartialBoth ==
    /\ Alive(run) \/ Alive(run2)
    /\ run' = AfterPartial(run)
    /\ run2' = AfterPartial(run2)
    /\ UNCHANGED rd

NextModes == StartBoth \/ FeedBoth \/ EndBoth \/ PartialBoth

SpecModes == InitModes /\ [][NextModes]_vars

(* --------------------- the reader, byte by byte ---------------------- *)

(***************************************************************************)
(* The image is img_len bytes; a byte is named by its offset.  buffer[i]   *)
(* holds byte i of the image for i < buf_len, and the descriptor stands at *)
(* file_pos.  What read_chunk leaves in data[] is kept as the extents      *)
(* <<from, to>> of the image it copied, adjacent extents merged.           *)
(***************************************************************************)

\* a variant of xread that always reports len bytes (C11 must not hold of it)
xreadFull(pos, img_len, len) == len

\* xread: the bytes obtained from position pos, read until len are there or
\* the image has ended
xread(pos, img_len, len) == IF img_len - pos < len THEN img_len - pos ELSE len

\* a variant without the cap of line 508 (C5 must not hold of it)
BufferedPartUncapped(buf_len, buf_idx, len) == buf_len - buf_idx

\* lines 507-508: the bytes taken from the look-ahead buffer
BufferedPart(buf_len, buf_idx, len) ==
    IF buf_len - buf_idx > len THEN len ELSE buf_len - buf_idx

Merged(parts) ==
    IF Len(parts) = 2 /\ parts[1][2] = parts[2][1]
    THEN << <<parts[1][1], parts[2][2]>> >>
    ELSE parts

\* a reader as main sets it up for a forced layout (lines 73-77, 635-636)
ForcedReader(i) ==
    [chunk_size |-> possible_layouts[i].chunk_size,
     spare_size |-> possible_layouts[i].spare_size,
     buf_len |-> 0, buf_idx |-> 0, file_pos |-> 0, chunk_no |-> 0, log |-> <<>>]

\* read_chunk: the outcome is appended to r.log
read_chunk_bytes(r, img_len) ==
    LET len == r.chunk_size + r.spare_size
        s1 == IF r.buf_len > r.buf_idx
              THEN BufferedPart(r.buf_len, r.buf_idx, len) ELSE 0
        s2 == IF s1 < len THEN xread(r.file_pos, img_len, len - s1) ELSE 0
        offset == s1 + s2
        parts == (IF s1 > 0 THEN << <<r.buf_idx, r.buf_idx + s1>> >> ELSE <<>>)
                 \o (IF s2 > 0 THEN << <<r.file_pos, r.file_pos + s2>> >> ELSE <<>>)
        outcome == IF offset # 0 /\ offset # len THEN <<"broken">>
                   ELSE IF offset # 0 THEN <<"present", Merged(parts)>>
                   ELSE <<"absent">>
    IN  [r EXCEPT !.chunk_no = @ + 1, !.buf_idx = @ + s1, !.file_pos = @ + s2,
                  !.log = Append(@, outcome)]

\* a 32-bit word of the buffer at offset off: the image's where the image
\* reaches, 0xffffffff (the memset) beyond it
BufferWord(buf_len, off, v) == IF off + 4 <= buf_len THEN v ELSE -1

\* the tag at offset off of the buffer
BufferTag(buf_len, off, t) ==
    [objectId |-> BufferWord(buf_len, off + 4, t.objectId),
     chunkId |-> BufferWord(buf_len, off + 8, t.chunkId),
     byteCount |-> BufferWord(buf_len, off + 12, t.byteCount)]

\* a variant that takes any tag with chunkId 1 as the second tag (C12 must
\* not hold of it)
LayoutFitsAnyData(buf_len, img, i) ==
    LET c == possible_layouts[i].chunk_size
        sp == possible_layouts[i].spare_size
        pt == BufferTag(buf_len, c, img.tag1[i])
        pt2 == BufferTag(buf_len, 2 * c + sp, img.tag2[i])
    IN  /\ pt.byteCount = BC_HEADER
        /\ pt.chunkId = 0
        /\ \/ pt2.byteCount = BC_HEADER /\ pt2.chunkId = 0
           \/ pt2.chunkId = 1

\* lines 552-554: candidate i fits the buffer
LayoutFits(buf_len, img, i) ==
    LET c == possible_layouts[i].chunk_size
        sp == possible_layouts[i].spare_size
        pt == BufferTag(buf_len, c, img.tag1[i])
        pt2 == BufferTag(buf_len, 2 * c + sp, img.tag2[i])
    IN  /\ pt.byteCount = BC_HEADER
        /\ pt.chunkId = 0
        /\ \/ pt2.byteCount = BC_HEADER /\ pt2.chunkId = 0
           \/ pt2.objectId = pt.objectId /\ pt2.chunkId = 1

\* detect_chunk_size on an image of d.img_len bytes whose first header and
\* candidate tags are img; d.auto is the reader it leaves, d.forced a reader
\* on the same image with the layout found forced
detect_chunk_size(d, img) ==
    LET buf_len == xread(0, d.img_len, BufferSize)
        type == BufferWord(buf_len, 0, img.type)
        parent == BufferWord(buf_len, 4, img.parentObjectId)
        fits == {i \in 1..max_layout : LayoutFits(buf_len, img, i)}
    IN
    IF \/ parent # YAFFS_OBJECTID_ROOT
       \/ type \notin { YAFFS_OBJECT_TYPE_FILE, YAFFS_OBJECT_TYPE_DIRECTORY,
                        YAFFS_OBJECT_TYPE_SYMLINK, YAFFS_OBJECT_TYPE_HARDLINK,
                        YAFFS_OBJECT_TYPE_SPECIAL }
    THEN [d EXCEPT !.pc = "abort", !.msg = "Not a yaffs2 image"]
    ELSE IF fits = {}
    THEN [d EXCEPT !.pc = "abort", !.msg = "Can't determine chunk size"]
    ELSE LET i == CHOOSE k \in fits : \A j \in fits : k <= j IN
         [d EXCEPT !.pc = "read", !.layout = i,
                   !.auto = [ForcedReader(i) EXCEPT !.buf_len = buf_len,
                                                    !.file_pos = buf_len],
                   !.forced = ForcedReader(i)]

\* the image lengths explored: empty, shorter than a header, whole records of
\* each layout, a partial last record, shorter and longer than the buffer
ImageLens ==
    {0, 4, 4224, 6336, 6340, 12672, 25344, 33792, 35904, 35908, 50688, 59136}

FirstTags ==
    { [objectId |-> 2, chunkId |-> 0, byteCount |-> BC_HEADER],
      [objectId |-> 2, chunkId |-> 1, byteCount |-> BC_HEADER],
      [objectId |-> 2, chunkId |-> 1, byteCount |-> 1],
      [objectId |-> -1, chunkId |-> -1, byteCount |-> BC_EMPTY] }

SecondTags ==
    { [objectId |-> 3, chunkId |-> 0, byteCount |-> BC_HEADER],
      [objectId |-> 2, chunkId |-> 1, byteCount |-> 1],
      [objectId |-> 3, chunkId |-> 1, byteCount |-> 1],
      [objectId |-> -1, chunkId |-> -1, byteCount |-> BC_EMPTY] }

ImagePrefixes ==
    [type : {YAFFS_OBJECT_TYPE_UNKNOWN, YAFFS_OBJECT_TYPE_FILE, YAFFS_OBJECT_TYPE_DIRECTORY},
     parentObjectId : {1, 2},
     tag1 : [1..max_layout -> FirstTags],
     tag2 : [1..max_layout -> SecondTags]]

Finished(r) == r.log # <<>> /\ r.log[Len(r.log)][1] # "present"

InitReader ==
    /\ run = Idle
    /\ run2 = Idle
    /\ rd \in { [pc |-> "detect", msg |-> "", img_len |-> n, layout |-> 0,
                  auto |-> ForcedReader(1), forced |-> ForcedReader(1)] :
                 n \in ImageLens }

Detect ==
    /\ rd.pc = "detect"
    /\ \E img \in ImagePrefixes : rd' = detect_chunk_size(rd, img)
    /\ UNCHANGED <<run, run2>>

ReadAuto ==
    /\ rd.pc = "read"
    /\ ~Finished(rd.auto)
    /\ rd' = [rd EXCEPT !.auto = read_chunk_bytes(rd.auto, rd.img_len)]
    /\ UNCHANGED <<run, run2>>

ReadForced ==
    /\ rd.pc = "read"
    /\ ~Finished(rd.forced)
    /\ rd' = [rd EXCEPT !.forced = read_chunk_bytes(rd.forced, rd.img_len)]
    /\ UNCHANGED <<run, run2>>

NextReader == Detect \/ ReadAuto \/ ReadForced

SpecReader == InitReader /\ [][NextReader]_vars

(* ------------------------------ properties --------------------------- *)

\* a run that reads one more record within the images explored
Reading(st, pc) == st.pc = pc /\ st.chunk_no < MaxChunks

HeaderTag(pt) == pt.byteCount = 65535 /\ pt.chunkId = 0

InTable(obj_list, id) == \E i \in 1..Len(obj_list) : obj_list[i].id = id

EntryOf(obj_list, id) == obj_list[CHOOSE i \in 1..Len(obj_list) : obj_list[i].id = id]

\* C1: in list mode a complete run issues no operation on the filesystem,
\* the shutdown phase included.
C1_ListModeNoFsOps == run.opt_list => run.ops = <<>>

LastSlash(p) ==
    LET S == {i \in 1..Len(p) : p[i] = "/"}
    IN  IF S = {} THEN 0 ELSE CHOOSE i \in S : \A j \in S : j <= i

ParentOf(p) == IF LastSlash(p) = 0 THEN <<".">> ELSE SubSeq(p, 1, LastSlash(p) - 1)

CreatesChildIn(op, dir) ==
    /\ op[1] \in {"creat", "mkdir", "symlink", "link", "mknod"}
    /\ ParentOf(op[2]) = dir

\* in extract mode a header of the root, and only that, issues chmod(".")
RootHeaderSeen(st) ==
    \E i \in 1..Len(st.ops) : st.ops[i][1] = "chmod" /\ st.ops[i][2] = <<".">>

TimeRestored(st, e) ==
    \E i \in 1..Len(st.ops) :
        /\ st.ops[i][1] = "set_utime"
        /\ st.ops[i] = <<"set_utime", e.path_name, e.atime, e.mtime>>
        /\ \A j \in (i + 1)..Len(st.ops) :
               /\ ~CreatesChildIn(st.ops[j], e.path_name)
               /\ ~(st.ops[j][1] = "set_utime" /\ st.ops[j][2] = e.path_name
                    /\ st.ops[j] # st.ops[i])

\* C2: after an extraction that ends cleanly, every directory whose header was
\* processed, the root included, had set_utime applied with the times of its
\* last header, and nothing was created in it afterwards.
C2_DirMtimeRestored ==
    (run.pc = "done" /\ ~run.opt_list) =>
        \A i \in 1..Len(run.obj_list) :
            LET e == run.obj_list[i] IN
            (/\ e.type = YAFFS_OBJECT_TYPE_DIRECTORY
             /\ (e.id = YAFFS_OBJECTID_ROOT => RootHeaderSeen(run)))
                => TimeRestored(run, e)

LastCreat(ops, path) ==
    LET S == {i \in 1..Len(ops) : ops[i][1] = "creat" /\ ops[i][2] = path}
    IN  IF S = {} THEN 0 ELSE CHOOSE i \in S : \A j \in S : j <= i

\* the content of the file at path: the extents written since it was created
FileExtents(ops, path) ==
    LET w == SelectSeq(SubSeq(ops, LastCreat(ops, path) + 1, Len(ops)),
                       LAMBDA op : op[1] = "write" /\ op[2] = path)
    IN  [i \in 1..Len(w) |-> <<w[i][3], w[i][4]>>]

RECURSIVE SumCounts(_)
SumCounts(recs) == IF recs = <<>> THEN 0 ELSE Head(recs)[2] + SumCounts(Tail(recs))

\* the byteCount values of recs, as unsigned values, sum to exactly size
ExactSum(recs, size) ==
    /\ \A i \in 1..Len(recs) : recs[i][2] >= 0 /\ recs[i][2] <= size
    /\ SumCounts(recs) = size

\* C3: in extract mode a FILE of size S followed by records whose byteCount
\* values sum to exactly S ends with a file of exactly the first byteCount
\* payload bytes of each of those records, in stream order; a FILE of size 0
\* consumes no record and yields an empty file.
C3_ByteExactContent ==
    /\ (Reading(run, "file") /\ ~run.opt_list) =>
          \A rec \in Records :
              LET n == AfterRecord(run, rec, "ok")
                  recs == Append(run.cur[1].recs, <<run.chunk_no + 1, rec.t.byteCount>>)
              IN  ExactSum(recs, run.cur[1].oh.fileSize) =>
                      /\ n.pc = "main"
                      /\ FileExtents(n.ops, run.cur[1].path)
                             = SelectSeq(recs, LAMBDA r : r[2] # 0)
                      /\ \A i \in 1..Len(recs) : recs[i][2] <= n.chunk_size
    /\ (Reading(run, "main") /\ ~run.opt_list) =>
          \A rec \in Records :
              LET a == add_object(read_chunk(run), rec.oh, rec.t)
                  n == AfterRecord(run, rec, "ok")
              IN  (/\ HeaderTag(rec.t)
                   /\ rec.oh.type = YAFFS_OBJECT_TYPE_FILE
                   /\ rec.oh.fileSize = 0
                   /\ a.pc # "abort"
                   /\ PathKind(run, a.obj[1].path_name) # "dir") =>
                      /\ n.pc = "main"
                      /\ n.chunk_no = run.chunk_no + 1
                      /\ FileExtents(n.ops, a.obj[1].path_name) = <<>>

\* C6: in extract mode a HARDLINK header whose equivalentObjectId names no
\* entry of the object table when it is looked up aborts the run with exit
\* status 1 and issues no link operation.
C6_DanglingHardlinkAborts ==
    (Reading(run, "main") /\ ~run.opt_list) =>
        \A rec \in Records, fs \in FsResults :
            LET a == add_object(read_chunk(run), rec.oh, rec.t)
                n == AfterRecord(run, rec, fs)
            IN  (/\ HeaderTag(rec.t)
                 /\ rec.oh.type = YAFFS_OBJECT_TYPE_HARDLINK
                 /\ a.pc # "abort"
                 /\ ~InTable(a.obj_list, rec.oh.equivalentObjectId)) =>
                    /\ n.pc = "abort"
                    /\ n.ops = run.ops

C6_Witness ==
    /\ run.pc = "abort"
    /\ ~run.opt_list
    /\ run.msg = "Invalid equivalentObjectId"
    /\ Len(run.obj_list) >= 2
    /\ run.obj_list[1].type = YAFFS_OBJECT_TYPE_HARDLINK

\* C8: while a FILE has bytes outstanding, the end of the stream, a header
\* record, or a data record of another object aborts the run, in both modes,
\* and nothing of such a record is written.
C8_MissingDataAborts ==
    run.pc = "file" =>
        /\ file_end(read_chunk(run)).pc = "abort"
        /\ run.chunk_no < MaxChunks =>
              \A rec \in Records, fs \in FsResults :
                  (HeaderTag(rec.t) \/ rec.t.objectId # run.cur[1].id) =>
                      LET n == AfterRecord(run, rec, fs)
                      IN  n.pc = "abort" /\ n.ops = run.ops

C9_BadName(name) ==
    \/ Len(name) = 0
    \/ name = <<".">>
    \/ name = <<".", ".">>
    \/ \E i \in 1..Len(name) : name[i] = "/"

NoTwoEntriesWithOneId(obj_list) ==
    \A i, j \in 1..Len(obj_list) : obj_list[i].id = obj_list[j].id => i = j

\* C9: in both modes a header of a non-root id with an illegal name, an id
\* already in the table, a parent absent from the table or a parent that is
\* no directory aborts the run before any entry is inserted, any line listed
\* or any filesystem operation issued; the table never holds an id twice.
C9_InvalidReferenceAborts ==
    /\ run.pc # "start" => NoTwoEntriesWithOneId(run.obj_list)
    /\ Reading(run, "main") =>
          \A rec \in Records, fs \in FsResults :
              LET n == AfterRecord(run, rec, fs) IN
              (/\ HeaderTag(rec.t)
               /\ rec.t.objectId # 1
               /\ \/ C9_BadName(rec.oh.name)
                  \/ InTable(run.obj_list, rec.t.objectId)
                  \/ ~InTable(run.obj_list, rec.oh.parentObjectId)
                  \/ EntryOf(run.obj_list, rec.oh.parentObjectId).type # 3) =>
                  /\ n.pc = "abort"
                  /\ n.obj_list = run.obj_list
                  /\ n.ops = run.ops
                  /\ n.out = run.out

C9_Witness ==
    /\ run.pc = "abort"
    /\ run.msg \in {"Illegal file name", "Duplicate objectId",
                    "Invalid parentObjectId", "File can't be created"}
    /\ Len(run.obj_list) >= 2

PathsEntered(st) ==
    [i \in 1..Len(st.obj_list) |-> st.obj_list[Len(st.obj_list) + 1 - i].path_name]

\* C4: on an image on which the -t run and the extract run both end cleanly,
\* both have entered the same sequence of paths into the object table.
C4_SamePathsInBothModes ==
    (run.pc = "done" /\ run2.pc = "done") => PathsEntered(run) = PathsEntered(run2)

\* C7: warn_count starts at 0, grows by exactly one on each record that is
\* neither a header nor erased where a header is expected, is changed by no
\* other record, and the run aborts on the record that makes it MAX_WARN; a
\* run that still reads has warn_count < MAX_WARN.
C7_WarnBudget ==
    /\ run.pc = "start" => run.warn_count = 0
    /\ run.pc \in {"main", "file", "done"} => run.warn_count < 20
    /\ (run.pc = "abort" /\ run.msg = "Giving up") => run.warn_count = 20
    /\ (run.pc \in {"main", "file"} /\ run.chunk_no < MaxChunksWarn) =>
          \A rec \in WarnRecords, fs \in FsResults :
              LET n == AfterRecord(run, rec, fs) IN
              IF run.pc = "main" /\ rec.t.byteCount \notin {65535, -1}
              THEN /\ n.warn_count = run.warn_count + 1
                   /\ n.pc = IF n.warn_count = 20 THEN "abort" ELSE "main"
                   /\ n.pc = "abort" => n.msg = "Giving up"
                   /\ n.obj_list = run.obj_list
              ELSE /\ n.warn_count = run.warn_count
                   /\ n.msg # "Giving up"

C7_Witness ==
    /\ run.pc = "abort"
    /\ run.msg = "Giving up"
    /\ run.warn_count = 20
    /\ run.chunk_no > 20
    /\ Len(run.obj_list) >= 2

\* C5: after auto-detection has selected a layout, the reader delivers, call
\* for call, what a reader with that layout forced and no look-ahead buffer
\* delivers: the same bytes of the image, and the same absent or broken end.
C5_SameRecordsAsForced ==
    rd.pc = "read" =>
        /\ \A k \in 1..Len(rd.auto.log) :
               k <= Len(rd.forced.log) => rd.auto.log[k] = rd.forced.log[k]
        /\ Len(rd.auto.log) = rd.auto.chunk_no
        /\ Len(rd.forced.log) = rd.forced.chunk_no
        /\ \A k \in 1..Len(rd.auto.log) :
               rd.auto.log[k][1] = "present" =>
                   rd.auto.log[k][2]
                       = << <<(k - 1) * (rd.auto.chunk_size + rd.auto.spare_size),
                              k * (rd.auto.chunk_size + rd.auto.spare_size)>> >>

\* the buffer is drained, a record has come from the byte source, and both
\* readers have reached the end of the image
C5_Witness ==
    /\ rd.pc = "read"
    /\ Finished(rd.auto)
    /\ Finished(rd.forced)
    /\ rd.auto.buf_idx = BufferSize
    /\ \E k \in 1..Len(rd.auto.log) :
           /\ rd.auto.log[k][1] = "present"
           /\ rd.auto.log[k][2][1][1] >= BufferSize

\* the bytes a reader can still obtain: the rest of the look-ahead buffer and
\* the rest of the image behind the descriptor
BytesLeft(r, img_len) ==
    (IF r.buf_len > r.buf_idx THEN r.buf_len - r.buf_idx ELSE 0) + (img_len - r.file_pos)

\* C11: a call of the reader that obtains n bytes, len = chunk_size +
\* spare_size, is absent for n = 0, present for n = len and aborts the run as
\* a broken image for 0 < n < len; the chunk counter grows by one per call.
C11_ReaderOutcomes ==
    rd.pc = "read" =>
        \A r \in {rd.auto, rd.forced} :
            ~Finished(r) =>
                LET len == r.chunk_size + r.spare_size
                    left == BytesLeft(r, rd.img_len)
                    n == IF left < len THEN left ELSE len
                    after == read_chunk_bytes(r, rd.img_len)
                    outcome == after.log[Len(after.log)]
                IN  /\ Len(after.log) = Len(r.log) + 1
                    /\ after.chunk_no = r.chunk_no + 1
                    /\ outcome[1] = (IF n = 0 THEN "absent"
                                     ELSE IF n = len THEN "present" ELSE "broken")
                    /\ BytesLeft(after, rd.img_len) = left - n

\* a reader has delivered records and then met a partial record, the other
\* one has delivered records on an image that ends in a whole record
C11_Witness ==
    /\ rd.pc = "read"
    /\ Len(rd.forced.log) >= 2
    /\ rd.forced.log[1][1] = "present"
    /\ rd.forced.log[Len(rd.forced.log)][1] = "broken"
    /\ Len(rd.auto.log) >= 1
    /\ rd.auto.log[Len(rd.auto.log)][1] = "present"

\* a 32-bit word of the image at offset off, bytes past the end of a short
\* image reading as 0xff
ImageWord(img_len, off, v) == IF off + 4 <= img_len THEN v ELSE -1

\* candidate i qualifies on the image, as C12 states it
C12_Qualifies(img_len, img, i) ==
    LET chunk == possible_layouts[i].chunk_size
        spare == possible_layouts[i].spare_size
        t1 == img.tag1[i]
        t2 == img.tag2[i]
        bc1 == ImageWord(img_len, chunk + 12, t1.byteCount)
        id1 == ImageWord(img_len, chunk + 4, t1.objectId)
        ch1 == ImageWord(img_len, chunk + 8, t1.chunkId)
        bc2 == ImageWord(img_len, 2 * chunk + spare + 12, t2.byteCount)
        id2 == ImageWord(img_len, 2 * chunk + spare + 4, t2.objectId)
        ch2 == ImageWord(img_len, 2 * chunk + spare + 8, t2.chunkId)
    IN  /\ bc1 = 65535
        /\ ch1 = 0
        /\ (bc2 = 65535 /\ ch2 = 0) \/ (id2 = id1 /\ ch2 = 1)

\* C12: detection fails with "Not a yaffs2 image" when the first header's
\* parentObjectId is not 1 or its type is none of FILE, DIRECTORY, SYMLINK,
\* HARDLINK, SPECIAL; otherwise it selects the smallest candidate whose two
\* tags qualify, and fails with "Can't determine chunk size" exactly when
\* none does.
C12_DetectionRule ==
    rd.pc = "detect" =>
        \A img \in ImagePrefixes :
            LET d == detect_chunk_size(rd, img)
                type == ImageWord(rd.img_len, 0, img.type)
                parent == ImageWord(rd.img_len, 4, img.parentObjectId)
                Q == {i \in 1..4 : C12_Qualifies(rd.img_len, img, i)}
            IN  IF parent # 1 \/ type \notin 1..5
                THEN d.pc = "abort" /\ d.msg = "Not a yaffs2 image"
                ELSE IF Q = {}
                THEN d.pc = "abort" /\ d.msg = "Can't determine chunk size"
                ELSE /\ d.pc = "read"
                     /\ d.layout \in Q
                     /\ \A i \in Q : d.layout <= i
                     /\ d.auto.chunk_size = <<2048, 4096, 8192, 16384>>[d.layout]
                     /\ d.auto.spare_size = <<64, 128, 256, 512>>[d.layout]

\* detection has passed over smaller candidates and selected a larger one, on
\* an image shorter than the look-ahead buffer
C12_Witness ==
    /\ rd.pc = "read"
    /\ rd.layout = 2
    /\ rd.auto.chunk_size = 4096
    /\ rd.img_len < BufferSize
    /\ rd.auto.log = <<>>

\* C13: a record met where a header is expected is processed as an object
\* header only if its tag has byteCount 0xffff and chunkId 0; with byteCount
\* 0xffff and another chunkId it is malformed: it counts toward the warning
\* budget and inserts no entry.
C13_HeaderNeedsChunkIdZero ==
    Reading(run, "main") =>
        \A rec \in Records, fs \in FsResults :
            LET n == AfterRecord(run, rec, fs) IN
            /\ (\/ n.obj_list # run.obj_list
                \/ n.ops # run.ops
                \/ n.out # run.out) => (rec.t.byteCount = 65535 /\ rec.t.chunkId = 0)
            /\ (rec.t.byteCount = 65535 /\ rec.t.chunkId # 0) =>
                   /\ n.warn_count = run.warn_count + 1
                   /\ n.obj_list = run.obj_list

\* C14: a record whose tag has byteCount 0xffffffff is skipped wherever it
\* stands, in both modes: nothing but the chunk counter changes (table,
\* directory stack, warn_count, bytes written and bytes outstanding included).
C14_ErasedSkipped ==
    (Reading(run, "main") \/ Reading(run, "file")) =>
        \A fs \in FsResults :
            LET n == AfterRecord(run, ErasedRecord, fs) IN
            /\ n.chunk_no = run.chunk_no + 1
            /\ n.pc = run.pc
            /\ n.obj_list = run.obj_list
            /\ n.last_dir_id = run.last_dir_id
            /\ n.warn_count = run.warn_count
            /\ n.ops = run.ops
            /\ n.out = run.out
            /\ n.remain = run.remain

\* C15: in extract mode a link operation is issued for a HARDLINK header only
\* when equivalentObjectId names an entry of the table that is no DIRECTORY
\* and that an earlier header has put on disk.
C15_LinkOnlyToMaterialized ==
    (Reading(run, "main") /\ ~run.opt_list) =>
        \A rec \in Records, fs \in FsResults :
            LET n == AfterRecord(run, rec, fs)
            IN  (\E i \in (Len(run.ops) + 1)..Len(n.ops) : n.ops[i][1] = "link") =>
                    \E j \in 1..Len(run.obj_list) :
                        /\ run.obj_list[j].id = rec.oh.equivalentObjectId
                        /\ run.obj_list[j].type # 3
                        /\ PathKind(run, run.obj_list[j].path_name) = "node"

\* the components of a path, split at "/"
RECURSIVE Components(_)
Components(p) ==
    IF LastSlash(p) = 0 THEN <<p>>
    ELSE Append(Components(SubSeq(p, 1, LastSlash(p) - 1)),
                SubSeq(p, LastSlash(p) + 1, Len(p)))

C16_LegalComponent(c) ==
    /\ c # <<>>
    /\ c # <<".">>
    /\ c # <<".", ".">>
    /\ \A i \in 1..Len(c) : c[i] # "/"

\* the entry at position i of the table (newest first) lies under an older
\* entry of type DIRECTORY, by the rule of path construction
C16_UnderDirectory(obj_list, i) ==
    \E j \in (i + 1)..Len(obj_list) :
        LET e == obj_list[i]
            parent == obj_list[j]
            name == Components(e.path_name)[Len(Components(e.path_name))]
        IN  /\ parent.type = 3
            /\ e.path_name = IF parent.path_name = <<".">> THEN name
                             ELSE parent.path_name \o <<"/">> \o name

\* C16: every non-root entry was inserted under an already present entry of
\* type DIRECTORY, with path name (parent ".") or parent_path/name; no path
\* starts with "/", no component is empty, "." or ".."; the root's path stays
\* "."; a header is inserted only if its parent is a present DIRECTORY, and
\* the entries already there keep their paths.
C16_PathConstruction ==
    /\ run.pc \in {"main", "file", "done"} => run.obj_list # <<>>
    /\ run.obj_list # <<>> =>
          /\ run.obj_list[Len(run.obj_list)].id = 1
          /\ run.obj_list[Len(run.obj_list)].path_name = <<".">>
          /\ \A i \in 1..(Len(run.obj_list) - 1) :
                 LET e == run.obj_list[i] IN
                 /\ e.id # 1
                 /\ C16_UnderDirectory(run.obj_list, i)
                 /\ e.path_name[1] # "/"
                 /\ \A k \in 1..Len(Components(e.path_name)) :
                        C16_LegalComponent(Components(e.path_name)[k])
    /\ Reading(run, "main") =>
          \A rec \in Records, fs \in FsResults :
              LET n == AfterRecord(run, rec, fs)
                  k == Len(n.obj_list) - Len(run.obj_list)
              IN  /\ k \in {0, 1}
                  /\ \A i \in 1..Len(run.obj_list) :
                         /\ n.obj_list[i + k].id = run.obj_list[i].id
                         /\ n.obj_list[i + k].path_name = run.obj_list[i].path_name
                         /\ n.obj_list[i + k].type = run.obj_list[i].type
                  /\ k = 1 =>
                         /\ n.obj_list[1].id = rec.t.objectId
                         /\ InTable(run.obj_list, rec.oh.parentObjectId)
                         /\ EntryOf(run.obj_list, rec.oh.parentObjectId).type = 3
                         /\ n.obj_list[1].path_name =
                                IF EntryOf(run.obj_list, rec.oh.parentObjectId).path_name = <<".">>
                                THEN rec.oh.name
                                ELSE EntryOf(run.obj_list, rec.oh.parentObjectId).path_name
                                         \o <<"/">> \o rec.oh.name
    /\ Reading(run, "file") =>
          \A rec \in Records, fs \in FsResults :
              [i \in 1..Len(run.obj_list) |-> AfterRecord(run, rec, fs).obj_list[i].path_name]
                  = [i \in 1..Len(run.obj_list) |-> run.obj_list[i].path_name]

\* the table holds an entry two levels below the root
C16_Witness ==
    /\ run.pc = "main"
    /\ \E i \in 1..Len(run.obj_list) :
           /\ Len(Components(run.obj_list[i].path_name)) = 2
           /\ run.obj_list[i].type # 3

\* C17: from initialization on the table holds exactly one entry for id 1, a
\* DIRECTORY with path "."; a header for id 1 inserts no entry and issues no
\* mkdir, aborts the run if its type is not DIRECTORY, otherwise overwrites
\* only the root entry's atime and mtime and makes 1 the head of the directory
\* stack only if the stack is empty.
C17_RootEntry ==
    /\ run.pc \in {"main", "file", "done"} =>
          /\ \E i \in 1..Len(run.obj_list) : run.obj_list[i].id = 1
          /\ \A i, j \in 1..Len(run.obj_list) :
                 (run.obj_list[i].id = 1 /\ run.obj_list[j].id = 1) => i = j
          /\ \A i \in 1..Len(run.obj_list) :
                 run.obj_list[i].id = 1 =>
                     run.obj_list[i].type = 3 /\ run.obj_list[i].path_name = <<".">>
    /\ Reading(run, "main") =>
          \A rec \in Records, fs \in FsResults :
              LET n == AfterRecord(run, rec, fs) IN
              (HeaderTag(rec.t) /\ rec.t.objectId = 1) =>
                  /\ Len(n.obj_list) = Len(run.obj_list)
                  /\ \A i \in (Len(run.ops) + 1)..Len(n.ops) : n.ops[i][1] # "mkdir"
                  /\ rec.oh.type # 3 =>
                         /\ n.pc = "abort"
                         /\ n.obj_list = run.obj_list
                         /\ n.last_dir_id = run.last_dir_id
                         /\ n.ops = run.ops
                  /\ rec.oh.type = 3 =>
                         /\ n.pc = "main"
                         /\ \A i \in 1..Len(run.obj_list) :
                                n.obj_list[i] =
                                    IF run.obj_list[i].id = 1
                                    THEN [run.obj_list[i] EXCEPT
                                             !.atime = rec.oh.yst_atime,
                                             !.mtime = rec.oh.yst_mtime]
                                    ELSE run.obj_list[i]
                         /\ n.last_dir_id = IF run.last_dir_id = 0 THEN 1
                                            ELSE run.last_dir_id

\* a header of the root has been processed after the header of another
\* directory: the root has the header's times and is not the stack head
C17_Witness ==
    /\ run.pc = "main"
    /\ run.last_dir_id = 2
    /\ Len(run.obj_list) = 2
    /\ run.obj_list[2].id = 1
    /\ run.obj_list[2].mtime = 4
    /\ run.obj_list[1].mtime = 2

\* the ids met from id along prev_dir_id, in at most fuel steps; -1 stands for
\* a chain that has not ended by then, -2 for an id that names no entry
RECURSIVE C18_Chain(_, _, _)
C18_Chain(obj_list, id, fuel) ==
    IF id = 0 THEN <<>>
    ELSE IF fuel = 0 THEN <<-1>>
    ELSE IF ~InTable(obj_list, id) THEN <<-2>>
    ELSE <<id>> \o C18_Chain(obj_list, EntryOf(obj_list, id).prev_dir_id, fuel - 1)

\* the ids of the non-root directories of the table, newest first
C18_Directories(obj_list) ==
    LET d == SelectSeq(obj_list, LAMBDA e : e.type = 3 /\ e.id # 1)
    IN  [i \in 1..Len(d) |-> d[i].id]

C19_WriteWithinPayload ==
    (Reading(run, "file") /\ ~run.opt_list) =>
        \A rec \in Records, fs \in FsResults :
            LET n == AfterRecord(run, rec, fs) IN
            \A i \in (Len(run.ops) + 1)..Len(n.ops) :
                n.ops[i][1] = "write" =>
                    /\ n.ops[i][3] = run.chunk_no + 1
                    /\ n.ops[i][4] >= 0
                    /\ n.ops[i][4] <= run.remain
                    /\ ~ULt(rec.t.byteCount, n.ops[i][4])
                    /\ n.ops[i][4] <= run.chunk_size

C20_Ended == run.pc \in {"done", "abort"}

\* every step of the loop of main and of the data loop of a FILE reads once
C20_Progress == run.pc \in {"main", "file"} => run'.chunk_no = run.chunk_no + 1

\* the shutdown replay takes at most as many steps as there are directories
C20_ReplayBounded ==
    run.pc = "main" =>
        Len(set_dirs_utime(run).ops) - Len(run.ops)
            <= Len(SelectSeq(run.obj_list, LAMBDA e : e.type = 3))

\* C20: on every finite image and in both modes the run ends, in a clean exit
\* or a fatal abort: every turn of the loop of main and of the data loop of a
\* FILE reads a record of the stream or ends the run, whatever the byteCount
\* and fileSize values, and the shutdown replay takes at most as many steps as
\* there are directories.
C20_Terminates ==
    /\ [][C20_Progress]_vars
    /\ []C20_ReplayBounded
    /\ <>C20_Ended

\* a list run has ended in the data of a FILE whose outstanding count had
\* grown above the file's size
C20_Witness ==
    /\ run.pc = "abort"
    /\ run.msg = "Broken image file"
    /\ run.opt_list
    /\ run.cur # <<>>
    /\ run.remain > run.cur[1].oh.fileSize
    /\ run.chunk_no = MaxChunks + 1

====
